---- MODULE Spec2Model ----
(***************************************************************************)
(* Model of subtitle_ocr/src/bitmap.rs: classify_colors, which sorts the   *)
(* colors of an RGBA bitmap into Transparent, Shadow and Opaque.           *)
(*                                                                         *)
(* A color is the tuple <<r, g, b, a>> of Rgba<u8>.  An image is a record  *)
(* [width, height, data] with data[<<x, y>>] the pixel at column x, row y. *)
(* classify_colors is one sequential function; pc is the position in it:   *)
(*   "seed"     before the loop of lines 110-116                           *)
(*   "adjacent" before the loop of lines 122-126                           *)
(*   "tally"    before the loop of lines 127-161                           *)
(*   "scan"     before lines 166-174                                       *)
(*   "shadow"   before lines 178-184                                       *)
(*   "done"     after the return of line 187                               *)
(*   "failed"   after a panic (expect) or an Err return (the ? operator)   *)
(* overflow_checks is the build's setting for integer overflow: panic or   *)
(* wrap.  It decides what the i32 additions of line 142 do on overflow.    *)
(* std::collections::HashMap iterates in an unspecified order; every loop  *)
(* over a map takes its order from all permutations of the keys.           *)
(***************************************************************************)
EXTENDS Integers, Sequences, FiniteSets, TLC

VARIABLES image, overflow_checks, pc, classification, adjacent, total_adj,
          have_opaque_inside_shadow, failure, evaluated, setters

vars == <<image, overflow_checks, pc, classification, adjacent, total_adj,
          have_opaque_inside_shadow, failure, evaluated, setters>>

\* Largest width and height of the images explored.
MaxW == 4
MaxH == 5

\* i32::MAX, the limit of cast::i32 (line 142).
I32Max == 2147483647

\* The colors the explored images are painted with: fully transparent,
\* half transparent, and two opaque colors (black and gray of the test image).
Palette == { <<0, 0, 0, 0>>, <<0, 0, 0, 128>>, <<0, 0, 0, 255>>, <<153, 153, 153, 255>> }

ColorType == {"Transparent", "Shadow", "Opaque"}

\* impl From<ColorType> for usize
ColorTypeIndex(ct) ==
    CASE ct = "Transparent" -> 0
      [] ct = "Shadow" -> 1
      [] ct = "Opaque" -> 2

\* is_transparent taking only alpha 0 for transparent.
is_transparent_only_zero(c) == c[4] = 0

\* RgbaExt::is_transparent: self.data[3] < 0xff (data[3] is the 4th channel).
is_transparent(c) == c[4] < 255

----
\* Images

Positions(w, h) == (0 .. w - 1) \X (0 .. h - 1)

Min2(a, b) == IF a < b THEN a ELSE b

\* Distance of a pixel from the nearest edge of a w x h image.
Depth(w, h, p) == Min2(Min2(p[1], p[2]), Min2(w - 1 - p[1], h - 1 - p[2]))

\* A glyph-like image: a filling of one color inside a frame, one pixel wide,
\* of another (or the same) color.
Framed(w, h, frame, fill) ==
    [width |-> w, height |-> h,
     data |-> [p \in Positions(w, h) |-> IF Depth(w, h, p) = 0 THEN frame ELSE fill]]

\* The image with one pixel repainted.
Repaint(img, p, c) == [img EXCEPT !.data[p] = c]

\* A framed image and the images that differ from it in one pixel.
Variants(w, h, frame, fill) ==
    {Framed(w, h, frame, fill)} \cup
    {Repaint(Framed(w, h, frame, fill), p, c) : p \in Positions(w, h), c \in Palette}

\* The colors that occur as pixels of the image.
ColorsOf(img) == { img.data[p] : p \in DOMAIN img.data }

\* RgbaImage::get_pixel
get_pixel(img, x, y) == img.data[<<x, y>>]

None == <<>>

\* RgbaImageExt::get_opt: the pixel at (x, y), or None out of bounds.
get_opt(img, x, y) ==
    IF x < 0 \/ y < 0
    THEN None
    ELSE IF x >= img.width \/ y >= img.height
         THEN None
         ELSE get_pixel(img, x, y)

\* RgbaImage::pixels / enumerate_pixels: the positions in row-major order.
RowMajor(img) ==
    [i \in 1 .. (img.width * img.height) |->
        <<(i - 1) % img.width, (i - 1) \div img.width>>]

Reverse(s) == [i \in 1 .. Len(s) |-> s[Len(s) + 1 - i]]

\* The orders in which the pixel loops are taken to visit the image: the
\* row-major order of the image crate, and its reverse.
PixelOrders(img) == { RowMajor(img), Reverse(RowMajor(img)) }

\* All orders in which a HashMap can yield the keys S.
KeyOrders(S) ==
    { s \in [1 .. Cardinality(S) -> S] : \A i, j \in DOMAIN s : s[i] = s[j] => i = j }

----
\* HashMap<K, V> as a function whose domain is the set of keys.

EmptyMap == [k \in {} |-> 0]

\* HashMap::insert: add the key or overwrite its value.
MapInsert(m, k, v) == [x \in (DOMAIN m) \cup {k} |-> IF x = k THEN v ELSE m[x]]

\* HashMap::entry(k).or_insert(v): add the key only when it is absent.
MapOrInsert(m, k, v) == IF k \in DOMAIN m THEN m ELSE MapInsert(m, k, v)

----
\* AdjacentPixelInfo: data is [usize; 3], here a sequence indexed from 1.

\* AdjacentPixelInfo::new
NewInfo == <<0, 0, 0>>

\* AdjacentPixelInfo::count
count(adj, ct) == adj[ColorTypeIndex(ct) + 1]

\* AdjacentPixelInfo::incr_count
incr_count(adj, ct) ==
    [adj EXCEPT ![ColorTypeIndex(ct) + 1] = adj[ColorTypeIndex(ct) + 1] + 1]

\* AdjacentPixelInfo::total
total(adj) == adj[1] + adj[2] + adj[3]

\* AdjacentPixelInfo::fraction_adj_to: the f64 quotient count / total, kept
\* as the pair <<count, total>> of the two integers it is computed from.
fraction_adj_to(adj, ct) == <<count(adj, ct), total(adj)>>

\* The f64 comparison `q > h / 100` for a quotient q = n / d of counters.
\* 0.0 / 0.0 is NaN and NaN > x is false.  For d > 0 the correctly rounded
\* quotient exceeds the literal (the f64 nearest to h / 100) exactly when
\* n / d > h / 100: the quotient h / 100 itself rounds to the literal, and any
\* other n / d differs from h / 100 by at least 1 / (100 d), far more than
\* the spacing of f64 values for counters of this size.
Exceeds(q, h) == q[2] # 0 /\ 100 * q[1] > h * q[2]

\* looks_like_opaque_inside_shadow reading the Transparent counter.
looks_like_opaque_inside_shadow_wrong_counter(adj) ==
    Exceeds(fraction_adj_to(adj, "Transparent"), 95)

\* AdjacentPixelInfo::looks_like_opaque_inside_shadow
looks_like_opaque_inside_shadow(adj) == Exceeds(fraction_adj_to(adj, "Opaque"), 95)

\* looks_like_shadow without its test of the Transparent fraction.
looks_like_shadow_opaque_only(adj) == Exceeds(fraction_adj_to(adj, "Opaque"), 33)

\* AdjacentPixelInfo::looks_like_shadow
looks_like_shadow(adj) ==
    /\ Exceeds(fraction_adj_to(adj, "Opaque"), 33)
    /\ Exceeds(fraction_adj_to(adj, "Transparent"), 33)

----
\* classify_colors, lines 109-116: the initial split by alpha.

\* The role the first loop gives a pixel's color (lines 111-115).
InitialRole(px) == IF is_transparent(px) THEN "Transparent" ELSE "Opaque"

\* SeedStep passing over transparent pixels, as the tally loop does.
SeedStep_skip_transparent(cl, px) ==
    IF is_transparent(px) THEN cl ELSE MapOrInsert(cl, px, InitialRole(px))

\* One iteration of the loop of lines 110-116.
SeedStep(cl, px) == MapOrInsert(cl, px, InitialRole(px))

\* The iterations lo .. hi of the loop of lines 110-116, started with the map
\* cl: those of the first half of the range, then those of the second half
\* started with the map `first` the first half ends with.  (Binding `first`
\* as the element of a set has it evaluated before the second half is.)
RECURSIVE SeedRange(_, _, _, _, _)
SeedRange(cl, img, order, lo, hi) ==
    IF lo > hi THEN cl
    ELSE IF lo = hi THEN SeedStep(cl, img.data[order[lo]])
    ELSE CHOOSE r \in { SeedRange(first, img, order, (lo + hi) \div 2 + 1, hi) :
                           first \in { SeedRange(cl, img, order, lo, (lo + hi) \div 2) } } : TRUE

\* The loop of lines 110-116, visiting the pixels in the given order.
SeedPass(img, order) == SeedRange(EmptyMap, img, order, 1, Len(order))

----
\* classify_colors, lines 121-126: one adjacency record per non-transparent key.

\* AdjacentStep without the test of line 123: a record for every key.
AdjacentStep_every_key(adj, c) == MapInsert(adj, c, NewInfo)

\* AdjacentStep with the test of line 123 inverted.
AdjacentStep_inverted(adj, c) == IF is_transparent(c) THEN MapInsert(adj, c, NewInfo) ELSE adj

\* One iteration of the loop of lines 122-126.
AdjacentStep(adj, c) == IF ~is_transparent(c) THEN MapInsert(adj, c, NewInfo) ELSE adj

\* The map after the first n iterations of the loop of lines 122-126.
RECURSIVE AdjacentUpTo(_, _)
AdjacentUpTo(keys, n) ==
    IF n = 0
    THEN EmptyMap
    ELSE AdjacentStep(AdjacentUpTo(keys, n - 1), keys[n])

\* The loop of lines 122-126 over classification.keys() in the given order.
AdjacentPass(keys) == AdjacentUpTo(keys, Len(keys))

----
\* classify_colors, lines 127-161: the adjacency tally.

\* The offsets <<dx, dy>> in the order of the loops of lines 133-134.
Offsets ==
    << <<-1, -1>>, <<0, -1>>, <<1, -1>>,
       <<-1, 0>>, <<0, 0>>, <<1, 0>>,
       <<-1, 1>>, <<0, 1>>, <<1, 1>> >>

\* cast::i32 of a pixel index succeeds when the index fits an i32.
cast_i32_ok(n) == n <= I32Max

\* NeighborRole taking an out-of-bounds neighbor for Opaque.
NeighborRole_outside_opaque(cl, px_adj_opt) ==
    IF px_adj_opt = None THEN "Opaque" ELSE cl[px_adj_opt]

\* The role looked up for a neighbor (lines 150-155): Transparent out of
\* bounds, else its entry in the classification map.
NeighborRole(cl, px_adj_opt) ==
    IF px_adj_opt = None THEN "Transparent" ELSE cl[px_adj_opt]

\* The least i32, i32::MIN.
I32Min == - I32Max - 1

\* Whether the i32 addition a + b of line 142 leaves the range of i32.
add_i32_overflows(a, b) ==
    \/ b > 0 /\ a > I32Max - b
    \/ b < 0 /\ a < I32Min - b

\* The i32 addition a + b as a build without overflow checks computes it:
\* the sum modulo 2^32, taken in I32Min .. I32Max.
wrapping_add_i32(a, b) ==
    IF b > 0 /\ a > I32Max - b THEN I32Min + (a - (I32Max - b) - 1)
    ELSE IF b < 0 /\ a < I32Min - b THEN I32Max - ((I32Min - b) - a - 1)
    ELSE a + b

\* One iteration of the loop of line 134 (lines 135-158) for the pixel px at
\* (x, y) and the offset d, in a build with overflow checks (checks) or
\* without.  st = [adjacent, failure]: once a failure is recorded the function
\* has stopped and nothing changes any more.  Line 142 evaluates
\* cast::i32(x)? + dx, then cast::i32(y)? + dy: a failed cast returns the
\* error; an addition that overflows panics in a build with overflow checks
\* and wraps in a build without them.
TallyNeighbor(st, cl, img, x, y, px, d, checks) ==
    IF st.failure # "none" THEN st
    ELSE IF d[1] = 0 /\ d[2] = 0 THEN st
    ELSE IF ~cast_i32_ok(x)
         THEN [st EXCEPT !.failure = "coordinate overflow"]
    ELSE IF checks /\ add_i32_overflows(x, d[1])
         THEN [st EXCEPT !.failure = "attempt to add with overflow"]
    ELSE IF ~cast_i32_ok(y)
         THEN [st EXCEPT !.failure = "coordinate overflow"]
    ELSE IF checks /\ add_i32_overflows(y, d[2])
         THEN [st EXCEPT !.failure = "attempt to add with overflow"]
    ELSE LET px_adj_opt == get_opt(img, wrapping_add_i32(x, d[1]),
                                   wrapping_add_i32(y, d[2])) IN
         IF px_adj_opt = px THEN st
         ELSE IF px_adj_opt # None /\ px_adj_opt \notin DOMAIN cl
              THEN [st EXCEPT !.failure = "unknown classification"]
         ELSE IF px \notin DOMAIN st.adjacent
              THEN [st EXCEPT !.failure = "unknown adjacent color"]
         ELSE [st EXCEPT !.adjacent[px] = incr_count(@, NeighborRole(cl, px_adj_opt))]

\* The state after the first k offsets of the loops of lines 133-134.
RECURSIVE TallyOffsetsUpTo(_, _, _, _, _, _, _, _)
TallyOffsetsUpTo(st, cl, img, x, y, px, k, checks) ==
    IF k = 0
    THEN st
    ELSE TallyNeighbor(TallyOffsetsUpTo(st, cl, img, x, y, px, k - 1, checks),
                       cl, img, x, y, px, Offsets[k], checks)

\* One iteration of the loop of line 127 (lines 128-160) for the pixel at p.
TallyPixel(st, cl, img, p, checks) ==
    IF st.failure # "none" THEN st
    ELSE IF is_transparent(img.data[p]) THEN st
    ELSE TallyOffsetsUpTo(st, cl, img, p[1], p[2], img.data[p], Len(Offsets),
                          checks)

\* The iterations lo .. hi of the loop of line 127, started in the state st:
\* those of the first half of the range, then those of the second half.
RECURSIVE TallyRange(_, _, _, _, _, _, _)
TallyRange(st, cl, img, order, lo, hi, checks) ==
    IF st.failure # "none" \/ lo > hi THEN st
    ELSE IF lo = hi THEN TallyPixel(st, cl, img, order[lo], checks)
    ELSE TallyRange(TallyRange(st, cl, img, order, lo, (lo + hi) \div 2,
                               checks),
                    cl, img, order, (lo + hi) \div 2 + 1, hi, checks)

\* The loop of lines 127-161, visiting the pixels in the given order.
TallyPass(adj, cl, img, order, checks) ==
    TallyRange([adjacent |-> adj, failure |-> "none"], cl, img, order, 1, Len(order),
               checks)

----
\* classify_colors, lines 164-174: the significance scan.

\* The sum of the totals of the first n records.
RECURSIVE SumTotalsUpTo(_, _, _)
SumTotalsUpTo(adj, keys, n) ==
    IF n = 0
    THEN 0
    ELSE SumTotalsUpTo(adj, keys, n - 1) + total(adj[keys[n]])

\* Line 166: adjacent.values().map(|adj| adj.total()).sum()
SumTotals(adj, keys) == SumTotalsUpTo(adj, keys, Len(keys))

\* is_significant with > for >=.
is_significant_strict(info, ta) == total(info) > ta \div 4

\* is_significant with an eighth for a quarter.
is_significant_eighth(info, ta) == total(info) >= ta \div 8

\* Line 171, left of &&: the record makes up a reasonable fraction of the total.
is_significant(info, ta) == total(info) >= ta \div 4

\* Line 171: the whole condition; && evaluates its right side only when the
\* left side holds.
sets_flag(info, ta) == is_significant(info, ta) /\ looks_like_opaque_inside_shadow(info)

\* ScanStep assigning the condition instead of only ever setting the flag.
ScanStep_assign(flag, info, ta) == sets_flag(info, ta)

\* One iteration of the loop of lines 168-174.
ScanStep(flag, info, ta) == IF sets_flag(info, ta) THEN TRUE ELSE flag

\* The flag after the first n iterations of the loop of lines 168-174.
RECURSIVE ScanUpTo(_, _, _, _)
ScanUpTo(adj, keys, ta, n) ==
    IF n = 0
    THEN FALSE
    ELSE ScanStep(ScanUpTo(adj, keys, ta, n - 1), adj[keys[n]], ta)

\* Lines 167-174 over adjacent.values() in the given order.
ScanPass(adj, keys, ta) == ScanUpTo(adj, keys, ta, Len(keys))

----
\* classify_colors, lines 176-184: the shadow scan.

\* One iteration of the loop of lines 179-183.
ShadowStep(cl, c, info) ==
    IF looks_like_shadow(info) THEN MapInsert(cl, c, "Shadow") ELSE cl

\* The map after the first n iterations of the loop of lines 179-183.
RECURSIVE ShadowUpTo(_, _, _, _)
ShadowUpTo(cl, adj, keys, n) ==
    IF n = 0
    THEN cl
    ELSE ShadowStep(ShadowUpTo(cl, adj, keys, n - 1), keys[n], adj[keys[n]])

\* Lines 179-183 over adjacent.iter() in the given order.
ShadowPass(cl, adj, keys) == ShadowUpTo(cl, adj, keys, Len(keys))

----
\* classify_colors as a whole, with every loop in one fixed order: the pixels
\* row-major and each map's keys in one chosen order.  The result is
\* [failure, map]: failure is "none" and map the returned map when the
\* function returns Ok, else failure names what stopped it.

SomeOrder(S) == CHOOSE s \in KeyOrders(S) : TRUE

classify_colors(img, checks) ==
    LET cl0 == SeedPass(img, RowMajor(img))
        adj0 == AdjacentPass(SomeOrder(DOMAIN cl0))
        st == TallyPass(adj0, cl0, img, RowMajor(img), checks)
        keys == SomeOrder(DOMAIN st.adjacent)
        ta == SumTotals(st.adjacent, keys)
        flag == ScanPass(st.adjacent, keys, ta)
    IN  [failure |-> st.failure,
         map |-> IF st.failure # "none" THEN EmptyMap
                 ELSE IF flag THEN ShadowPass(cl0, st.adjacent, keys)
                 ELSE cl0]

----
\* The state machine.  It starts on any image of up to MaxW x MaxH pixels
\* (the sizes with no pixels included) that is a framed image or differs from
\* one in a single pixel.  overflow_checks tells whether the build panics on
\* integer overflow (the dev and test profiles) or wraps (the release
\* profile); the builds that wrap are explored on the framed images.

Init ==
    /\ \E w \in 0 .. MaxW, h \in 0 .. MaxH, frame \in Palette, fill \in Palette :
          \/ /\ overflow_checks = TRUE
             /\ image \in Variants(w, h, frame, fill)
          \/ /\ overflow_checks = FALSE
             /\ image = Framed(w, h, frame, fill)
    /\ pc = "seed"
    /\ classification = EmptyMap
    /\ adjacent = EmptyMap
    /\ total_adj = 0
    /\ have_opaque_inside_shadow = FALSE
    /\ failure = "none"
    /\ evaluated = {}
    /\ setters = {}

\* Lines 109-116.
Seed ==
    /\ pc = "seed"
    /\ \E order \in PixelOrders(image) : classification' = SeedPass(image, order)
    /\ pc' = "adjacent"
    /\ UNCHANGED <<image, overflow_checks, adjacent, total_adj,
                   have_opaque_inside_shadow, failure, evaluated, setters>>

\* Lines 121-126.
CreateAdjacent ==
    /\ pc = "adjacent"
    /\ \E keys \in KeyOrders(DOMAIN classification) : adjacent' = AdjacentPass(keys)
    /\ pc' = "tally"
    /\ UNCHANGED <<image, overflow_checks, classification, total_adj,
                   have_opaque_inside_shadow, failure, evaluated, setters>>

\* Lines 127-161.  A panic or an Err return ends the function.
Tally ==
    /\ pc = "tally"
    /\ \E order \in PixelOrders(image) :
          LET st == TallyPass(adjacent, classification, image, order,
                             overflow_checks) IN
              /\ adjacent' = st.adjacent
              /\ failure' = st.failure
              /\ pc' = IF st.failure = "none" THEN "scan" ELSE "failed"
    /\ UNCHANGED <<image, overflow_checks, classification, total_adj,
                   have_opaque_inside_shadow, evaluated, setters>>

\* Lines 164-174.  evaluated records the colors whose record fraction_adj_to
\* has been called on, setters the colors whose record set the flag.
Scan ==
    /\ pc = "scan"
    /\ \E k1, k2 \in KeyOrders(DOMAIN adjacent) :
          LET ta == SumTotals(adjacent, k1) IN
              /\ total_adj' = ta
              /\ have_opaque_inside_shadow' = ScanPass(adjacent, k2, ta)
              /\ evaluated' = { c \in DOMAIN adjacent : is_significant(adjacent[c], ta) }
              /\ setters' = { c \in DOMAIN adjacent : sets_flag(adjacent[c], ta) }
    /\ pc' = "shadow"
    /\ UNCHANGED <<image, overflow_checks, classification, adjacent, failure>>

\* Lines 178-184 with the flag set, then the return of line 187.
ShadowScan ==
    /\ pc = "shadow"
    /\ have_opaque_inside_shadow
    /\ \E keys \in KeyOrders(DOMAIN adjacent) :
          classification' = ShadowPass(classification, adjacent, keys)
    /\ evaluated' = evaluated \cup DOMAIN adjacent
    /\ pc' = "done"
    /\ UNCHANGED <<image, overflow_checks, adjacent, total_adj,
                   have_opaque_inside_shadow, failure, setters>>

\* Line 178 with the flag clear, then the return of line 187.
Return ==
    /\ pc = "shadow"
    /\ ~have_opaque_inside_shadow
    /\ pc' = "done"
    /\ UNCHANGED <<image, overflow_checks, classification, adjacent,
                   total_adj, have_opaque_inside_shadow, failure, evaluated,
                   setters>>

Next == Seed \/ CreateAdjacent \/ Tally \/ Scan \/ ShadowScan \/ Return

Spec == Init /\ [][Next]_vars

TypeOK ==
    /\ overflow_checks \in BOOLEAN
    /\ pc \in {"seed", "adjacent", "tally", "scan", "shadow", "done", "failed"}
    /\ \A c \in DOMAIN classification : classification[c] \in ColorType
    /\ have_opaque_inside_shadow \in BOOLEAN

----
\* Vocabulary of the properties, defined on the image alone.

\* The alpha channel of a color.
Alpha(c) == c[4]

\* The role a color has by its alpha alone.
AlphaRole(c) == IF Alpha(c) < 255 THEN "Transparent" ELSE "Opaque"

\* The non-transparent colors of the image.
SolidColors(img) == { c \in ColorsOf(img) : Alpha(c) = 255 }

\* The 8 offsets of {-1,0,1}^2 other than (0,0).
Around == { d \in (-1 .. 1) \X (-1 .. 1) : d # <<0, 0>> }

InBounds(img, q) == q[1] >= 0 /\ q[1] < img.width /\ q[2] >= 0 /\ q[2] < img.height

\* The number of pairs (p, d), p a pixel of color c and d an offset, whose
\* position p + d is out of bounds (for r = Transparent) or is in bounds with
\* a color other than c whose alpha-based role is r.
Observations(img, c, r) ==
    Cardinality({ pd \in (DOMAIN img.data) \X Around :
        /\ img.data[pd[1]] = c
        /\ LET q == <<pd[1][1] + pd[2][1], pd[1][2] + pd[2][2]>> IN
               IF InBounds(img, q)
               THEN img.data[q] # c /\ AlphaRole(img.data[q]) = r
               ELSE r = "Transparent" })

\* The three counters of a record, and their sum.
Obs(info) == info[1] + info[2] + info[3]

RECURSIVE SumObs(_, _)
SumObs(adj, S) ==
    IF S = {} THEN 0
    ELSE LET c == CHOOSE x \in S : TRUE IN Obs(adj[c]) + SumObs(adj, S \ {c})

Finished == pc = "done"

AfterTally == pc \in {"scan", "shadow", "done"}

\* C1: the keys of the returned map are exactly the colors that occur as
\* pixels of the image (none for an image without pixels), so the size of
\* the map is the number of distinct colors.
C1_KeysAreTheImageColors ==
    Finished =>
        /\ DOMAIN classification = ColorsOf(image)
        /\ Cardinality(DOMAIN classification) = Cardinality(ColorsOf(image))

C1_Witness ==
    /\ Finished
    /\ Cardinality(ColorsOf(image)) = 3
    /\ Cardinality(DOMAIN image.data) > 3
    /\ DOMAIN classification = ColorsOf(image)

\* C2: every color of the image with alpha below 0xff is Transparent after the
\* initial pass and in every later state up to the returned map, and no
\* adjacency record is ever made for such a color.
C2_TransparentStaysTransparent ==
    /\ pc # "seed" /\ pc # "failed" =>
          \A c \in ColorsOf(image) :
              Alpha(c) < 255 => c \in DOMAIN classification /\ classification[c] = "Transparent"
    /\ \A c \in DOMAIN adjacent : Alpha(c) = 255

C2_Witness ==
    /\ Finished
    /\ have_opaque_inside_shadow
    /\ \E c \in ColorsOf(image) :
          Alpha(c) > 0 /\ Alpha(c) < 255 /\ classification[c] = "Transparent"
    /\ \E c \in ColorsOf(image) : classification[c] = "Shadow"

\* The reference flag: some record has total() >= total_adj / 4 (integer
\* quotient, equality included) and more than 95% Opaque observations.
RefFlag ==
    \E c \in DOMAIN adjacent :
        /\ Obs(adjacent[c]) >= SumObs(adjacent, DOMAIN adjacent) \div 4
        /\ 100 * adjacent[c][3] > 95 * Obs(adjacent[c])

\* The reference test for Shadow: the flag, and more than 33% of the color's
\* observations Opaque and more than 33% Transparent.
RefShadow(c) ==
    /\ RefFlag
    /\ c \in DOMAIN adjacent
    /\ 100 * adjacent[c][3] > 33 * Obs(adjacent[c])
    /\ 100 * adjacent[c][1] > 33 * Obs(adjacent[c])

\* The reference map.
RefMap == [c \in ColorsOf(image) |-> IF RefShadow(c) THEN "Shadow" ELSE AlphaRole(c)]

\* C3: the returned map is the reference map.  Its flag is set exactly when
\* some record has total() >= total_adj / 4 (integer quotient, equality
\* included) and more than 95% Opaque observations; a non-transparent color is
\* Shadow exactly when the flag is set and more than 33% of its observations
\* are Opaque and more than 33% are Transparent; any other color has its
\* alpha-based role.
C3_ResultIsReference ==
    Finished =>
        /\ have_opaque_inside_shadow = RefFlag
        /\ classification = RefMap

C3_Witness ==
    /\ Finished
    /\ have_opaque_inside_shadow
    /\ \E c \in ColorsOf(image) : classification[c] = "Transparent"
    /\ \E c \in ColorsOf(image) : classification[c] = "Shadow"
    /\ \E c \in ColorsOf(image) : classification[c] = "Opaque"

\* C4: whatever order the pixel loops and the loops over the hash maps take,
\* the outcome is the one classify_colors computes with every loop in its
\* fixed order: the same map, or the same failure.
C4_ResultIndependentOfOrder ==
    pc \in {"done", "failed"} =>
        LET fixed == classify_colors(image, overflow_checks) IN
            /\ failure = fixed.failure
            /\ Finished => classification = fixed.map

C4_Witness ==
    /\ Finished
    /\ Cardinality(DOMAIN adjacent) = 2
    /\ Cardinality(setters) = 1
    /\ \E c \in ColorsOf(image) : classification[c] = "Shadow"

\* The pixels of the image use exactly two colors, one with alpha 0 and one
\* with alpha 0xff.
TwoTone(img) ==
    /\ Cardinality(ColorsOf(img)) = 2
    /\ \E c \in ColorsOf(img) : Alpha(c) = 0
    /\ \E c \in ColorsOf(img) : Alpha(c) = 255

\* C5: an image whose pixels use exactly two colors, one with alpha 0 and one
\* with alpha 0xff, never sets have_opaque_inside_shadow, and is returned with
\* the opaque color Opaque and the transparent color Transparent.
C5_TwoToneHasNoShadow ==
    TwoTone(image) =>
        /\ ~have_opaque_inside_shadow
        /\ Finished => \A c \in ColorsOf(image) :
                           /\ c \in DOMAIN classification
                           /\ classification[c] = AlphaRole(c)

C5_Witness ==
    /\ Finished
    /\ TwoTone(image)
    /\ \E p \in DOMAIN image.data :
          /\ Alpha(image.data[p]) = 255
          /\ Depth(image.width, image.height, p) >= 1
    /\ \E c \in ColorsOf(image) : classification[c] = "Opaque"

\* C6 as stated: a record that sets the flag has 4 * total() >= total_adj.
C6_QuarterExact ==
    AfterTally /\ pc # "scan" =>
        \A c \in setters : 4 * Obs(adjacent[c]) >= total_adj

\* C6 as the code has it: total_adj is the sum of total() over all records,
\* and a record that sets the flag has total() >= total_adj / 4 with the
\* quotient rounded down, that is 4 * total() + 3 >= total_adj.
C6_QuarterRoundedDown ==
    AfterTally /\ pc # "scan" =>
        /\ total_adj = SumObs(adjacent, DOMAIN adjacent)
        /\ \A c \in setters : 4 * Obs(adjacent[c]) + 3 >= total_adj

C6_Witness ==
    /\ Finished
    /\ \E c \in setters : 4 * Obs(adjacent[c]) < total_adj

\* C7: every adjacency record that exists after the tally pass has
\* total() >= 1, and fraction_adj_to is only ever evaluated on such a record.
C7_NoZeroTotal ==
    /\ AfterTally => \A c \in DOMAIN adjacent : Obs(adjacent[c]) >= 1
    /\ \A c \in evaluated : c \in DOMAIN adjacent /\ Obs(adjacent[c]) >= 1

C7_Witness ==
    /\ Finished
    /\ Cardinality(ColorsOf(image)) = 1
    /\ Cardinality(DOMAIN image.data) > 1
    /\ evaluated = ColorsOf(image)

\* C8: when the tally pass has ended, the records are those of the
\* non-transparent colors of the image, and the Transparent and Opaque
\* counters of each are the numbers of observations of that role around the
\* pixels of the color; nothing is counted as Shadow.
C8_TallyCountsObservations ==
    pc = "scan" =>
        /\ DOMAIN adjacent = SolidColors(image)
        /\ \A c \in DOMAIN adjacent :
              /\ adjacent[c][1] = Observations(image, c, "Transparent")
              /\ adjacent[c][2] = 0
              /\ adjacent[c][3] = Observations(image, c, "Opaque")

C8_Witness ==
    /\ pc = "scan"
    /\ \E c \in ColorsOf(image) : Alpha(c) < 255
    /\ Cardinality(DOMAIN adjacent) = 2
    /\ \A c \in DOMAIN adjacent : adjacent[c][1] > 0 /\ adjacent[c][3] > 0
    /\ \E c \in DOMAIN adjacent : Obs(adjacent[c]) < 8 * Cardinality({p \in DOMAIN image.data : image.data[p] = c})

\* C9: when the tally pass begins every pixel's color is a key of the
\* classification map and every non-transparent pixel's color has an
\* adjacency record, and the pass never fails on a missing key.
C9_LookupsNeverFail ==
    /\ failure # "unknown classification"
    /\ failure # "unknown adjacent color"
    /\ pc = "tally" =>
          \A p \in DOMAIN image.data :
              /\ image.data[p] \in DOMAIN classification
              /\ Alpha(image.data[p]) = 255 => image.data[p] \in DOMAIN adjacent

C9_Witness ==
    /\ pc = "scan"
    /\ failure = "none"
    /\ \E c \in ColorsOf(image) : Alpha(c) < 255
    /\ Cardinality(SolidColors(image)) = 2

\* C10: a returned map with a Shadow color also has an Opaque color.
C10_ShadowLeavesOpaque ==
    Finished =>
        ((\E c \in DOMAIN classification : classification[c] = "Shadow")
            => (\E c \in DOMAIN classification : classification[c] = "Opaque"))

C10_Witness ==
    /\ Finished
    /\ \E c \in DOMAIN classification : classification[c] = "Shadow"
    /\ \E c \in setters : classification[c] = "Opaque"

====
